---- MODULE Spec2Model ----
(***************************************************************************)
(* EmployeeSatisfactionSurvey.sol as a state machine.                      *)
(*                                                                         *)
(* One action per external function of the contract; a call that reverts   *)
(* leaves the storage as it was and only records its outcome in `ret`.     *)
(* Encrypted values are symbolic handles: the FHE library derives the      *)
(* handle of a result from the operation and the handles of its operands,  *)
(* so a handle is modelled as the term that produced it.  The access       *)
(* control list of the FHE library is the set `acl` of persisted           *)
(* (handle, account) pairs.                                                *)
(***************************************************************************)
EXTENDS Integers, Sequences, FiniteSets, TLC

\* ------------------------------------------------------------------------
\* Bounds of the model
\* ------------------------------------------------------------------------
MaxResponses == 2      \* accepted submissions per behaviour
MaxIds == 2            \* length of the array given to grantMultipleDepartmentAccess
MaxTime == 1           \* block.timestamp ranges over 1..MaxTime

Identities == {"deployer", "alice"}             \* msg.sender / address arguments
Deployer == "deployer"                          \* the account that deploys
This == "this"                                  \* address(this)
Departments == {1, 2}                           \* uint32 plaintextDepartmentId

\* ------------------------------------------------------------------------
\* uint32 plaintexts.  A 32-bit word is the pair <<hi, lo>> of its 16-bit
\* halves, so that words up to 2^32 - 1 and their wrap-around are exact.
\* ------------------------------------------------------------------------
Half == 2^16

U32(n) == <<0, n>>

\* a + b modulo 2^32 (the arithmetic of euint32)
Add32(a, b) ==
    LET lo == a[2] + b[2]
    IN  <<(a[1] + b[1] + (lo \div Half)) % Half, lo % Half>>

\* a + b over the naturals: the high half is not reduced
AddNat(a, b) ==
    LET lo == a[2] + b[2]
    IN  <<a[1] + b[1] + (lo \div Half), lo % Half>>

\* ratings a caller can encrypt: the contract cannot see the plaintext, so
\* any 32-bit word can be submitted
RatingValues == {U32(5), <<Half - 1, Half - 2>>}

\* ------------------------------------------------------------------------
\* The FHE library (handles and access control list)
\* ------------------------------------------------------------------------
ZeroHandle == <<"zero">>                       \* an uninitialized euint32

\* an externalEuint32 created off-chain by `owner` for this contract
External(owner, v) == <<"ext", owner, v>>

ExternalRatings == {External(o, v) : o \in Identities, v \in RatingValues}
ExternalDepartments == {External(o, U32(d)) : o \in Identities, d \in Departments}

FHE_isInitialized(h) == h # ZeroHandle

\* FHE.asEuint32(n): trivial encryption of a plaintext
FHE_asEuint32(n) == <<"triv", U32(n)>>

\* mutant: every input proof is taken as valid
ProofVerifies_Always(ext, sender) == TRUE

\* FHE.fromExternal: the input proof binds the ciphertext to msg.sender
ProofVerifies(ext, sender) == ext[2] = sender

FHE_fromExternal(ext) == ext

\* FHE.add: an uninitialized operand is replaced by asEuint32(0)
FHE_add(a, b) ==
    LET x == IF FHE_isInitialized(a) THEN a ELSE FHE_asEuint32(0)
        y == IF FHE_isInitialized(b) THEN b ELSE FHE_asEuint32(0)
    IN  <<"add", x, y>>

\* the plaintext behind a handle
RECURSIVE Decrypt(_)
Decrypt(h) ==
    CASE h[1] = "zero" -> U32(0)
      [] h[1] = "triv" -> h[2]
      [] h[1] = "ext"  -> h[3]
      [] h[1] = "add"  -> Add32(Decrypt(h[2]), Decrypt(h[3]))

VARIABLES
    managers,                   \* mapping(address => bool)
    hasSubmittedToDepartment,   \* mapping(address => mapping(uint32 => bool))
    deployer,                   \* address private deployer
    responses,                  \* SurveyResponse[]
    totalRatingSum,             \* euint32
    responseCount,              \* euint32
    departmentRatingSum,        \* mapping(uint32 => euint32)
    departmentResponseCount,    \* mapping(uint32 => euint32)
    acl,                        \* persisted allowances of the FHE library
    ret,                        \* outcome of the latest call
    accepted,                   \* history: the plaintext arguments of every accepted submitSurvey
    \* the useEmployeeSurvey hook of the frontend
    chainId,                    \* parameter chainId
    ethersSigner,               \* parameter ethersSigner
    isManager,                  \* useState isManager
    handleResponseCount,        \* useState responseCount (a handle)
    handleTotalRatingSum,       \* useState totalRatingSum (a handle)
    departmentStats,            \* useState departmentStats (handles per department)
    clearResponseCount,         \* useState clearResponseCount
    clearRatingSum,             \* useState clearRatingSum
    clearDepartmentStats,       \* useState clearDepartmentStats
    refreshRun,                 \* the refreshStats call in flight
    departmentsRun,             \* the refreshDepartmentStats call in flight
    decryptRun                  \* the decryptStats call in flight

storage == <<managers, hasSubmittedToDepartment, deployer, responses,
             totalRatingSum, responseCount, departmentRatingSum,
             departmentResponseCount>>

vars == <<managers, hasSubmittedToDepartment, deployer, responses,
          totalRatingSum, responseCount, departmentRatingSum,
          departmentResponseCount, acl, ret, accepted,
          chainId, ethersSigner, isManager, handleResponseCount,
          handleTotalRatingSum, departmentStats, clearResponseCount,
          clearRatingSum, clearDepartmentStats, refreshRun, departmentsRun,
          decryptRun>>

history == <<accepted>>

\* the state of the hook: the contract does not touch it
frontend == <<chainId, ethersSigner, isManager, handleResponseCount,
              handleTotalRatingSum, departmentStats, clearResponseCount,
              clearRatingSum, clearDepartmentStats, refreshRun, departmentsRun,
              decryptRun>>

Undefined == "undefined"

\* a handle that is undefined
NoHandle == <<"undefined">>

\* no call in flight
Idle == [pc |-> "idle"]

\* a clear value that is undefined
NoClearValue == [handle |-> NoHandle, clear |-> <<>>, signer |-> Undefined]

\* new Map()
EmptyMap == <<>>

\* the chains the wallet can be on
ChainIds == {1, 2}

\* the hook as first rendered: no signer yet, nothing fetched, nothing
\* decrypted, no call in flight
FrontendInit ==
    /\ chainId = 1
    /\ ethersSigner = Undefined
    /\ isManager = FALSE
    /\ handleResponseCount = NoHandle
    /\ handleTotalRatingSum = NoHandle
    /\ departmentStats = EmptyMap
    /\ clearResponseCount = NoClearValue
    /\ clearRatingSum = NoClearValue
    /\ clearDepartmentStats = [stats |-> EmptyMap, signer |-> Undefined]
    /\ refreshRun = Idle
    /\ departmentsRun = Idle
    /\ decryptRun = Idle

\* the outcome of a call: what was called, by whom, how it ended, what it
\* returned and which events it emitted
Outcome(op, sender, status, value, events) ==
    [op |-> op, sender |-> sender, status |-> status,
     value |-> value, events |-> events]

None == <<>>

\* a call that reverts: nothing but the outcome changes
Revert(op, sender, status) ==
    /\ ret' = Outcome(op, sender, status, None, <<>>)
    /\ UNCHANGED <<storage, acl, history, frontend>>

\* ------------------------------------------------------------------------
\* constructor
\* ------------------------------------------------------------------------
\* mutant: the constructor makes every account a manager
Init_EveryoneManager ==
    /\ deployer = Deployer
    /\ managers = [a \in Identities |-> TRUE]
    /\ hasSubmittedToDepartment = [a \in Identities |-> [d \in Departments |-> FALSE]]
    /\ responses = <<>>
    /\ totalRatingSum = ZeroHandle
    /\ responseCount = ZeroHandle
    /\ departmentRatingSum = [d \in Departments |-> ZeroHandle]
    /\ departmentResponseCount = [d \in Departments |-> ZeroHandle]
    /\ acl = {}
    /\ ret = Outcome("constructor", Deployer, "ok", None, <<>>)
    /\ accepted = <<>>
    /\ FrontendInit

Init ==
    /\ deployer = Deployer
    /\ managers = [a \in Identities |-> a = Deployer]
    /\ hasSubmittedToDepartment = [a \in Identities |-> [d \in Departments |-> FALSE]]
    /\ responses = <<>>
    /\ totalRatingSum = ZeroHandle
    /\ responseCount = ZeroHandle
    /\ departmentRatingSum = [d \in Departments |-> ZeroHandle]
    /\ departmentResponseCount = [d \in Departments |-> ZeroHandle]
    /\ acl = {}
    /\ ret = Outcome("constructor", Deployer, "ok", None, <<>>)
    /\ accepted = <<>>
    /\ FrontendInit

\* mutant: the modifier accepts every caller
onlyManager_Anyone(sender) == TRUE

\* modifier onlyManager
\* mutant: the deployer passes the modifier whatever its flag
onlyManager_OrDeployer(sender) == managers[sender] \/ sender = deployer

\* mutant: when no manager is left every caller passes the modifier
onlyManager_OrNobodyLeft(sender) ==
    managers[sender] \/ \A a \in Identities : ~managers[a]

onlyManager(sender) == managers[sender]

\* FHE.allow / FHE.allowThis: the ACL accepts a grant only from an account
\* that is itself allowed on the handle
SenderAllowed(list, h) == <<h, This>> \in list


\* FHE.allow(h, account) for every pair <<h, account>> of `grants`: the
\* contract must be allowed on each handle, and the pairs are persisted
CanAllow(list, grants) == \A g \in grants : SenderAllowed(list, g[1])

\* mutant: a grant replaces the list instead of extending it
Allow_Overwrites(list, grants) == grants

Allow(list, grants) == list \cup grants

\* ------------------------------------------------------------------------
\* submitSurvey
\* ------------------------------------------------------------------------
Feedbacks == {"0x"}                             \* bytes encryptedFeedback

\* block.timestamp never decreases from one transaction to the next
LastTimestamp == IF responses = <<>> THEN 1 ELSE responses[Len(responses)].timestamp
Timestamps == LastTimestamp .. MaxTime

\* mutant: the duplicate check is missing
NotYetSubmitted_NoCheck(sender, d) == TRUE

\* mutant: one submission per address, whatever the department
NotYetSubmitted_PerAddress(sender, d) ==
    \A c \in Departments : ~hasSubmittedToDepartment[sender][c]

\* require(!hasSubmittedToDepartment[msg.sender][plaintextDepartmentId], ...)
NotYetSubmitted(sender, d) == ~hasSubmittedToDepartment[sender][d]

\* the record pushed onto responses
SurveyResponse(rating, department, encryptedFeedback, now, sender) ==
    [satisfactionRating |-> rating, departmentId |-> department,
     encryptedFeedback |-> encryptedFeedback, timestamp |-> now,
     employeeAddress |-> sender]

\* mutant: the total counts the submission instead of adding its rating
NextTotalRatingSum_AddsOne(rating) == FHE_add(totalRatingSum, FHE_asEuint32(1))

\* mutant: the total is overwritten with the rating of the submission
NextTotalRatingSum_Overwrites(rating) == rating

\* totalRatingSum = FHE.add(totalRatingSum, rating)
NextTotalRatingSum(rating) == FHE_add(totalRatingSum, rating)

\* responseCount = FHE.add(responseCount, one)
NextResponseCount(one) == FHE_add(responseCount, one)

\* mutant: the rating is added to the sum of every department
NextDepartmentRatingSum_AllDepartments(d, rating) ==
    [c \in Departments |-> FHE_add(departmentRatingSum[c], rating)]

\* mutant: the sum of the department is left as it is
NextDepartmentRatingSum_NoUpdate(d, rating) == departmentRatingSum

\* departmentRatingSum[d] = FHE.add(departmentRatingSum[d], rating)
NextDepartmentRatingSum(d, rating) ==
    [departmentRatingSum EXCEPT ![d] = FHE_add(@, rating)]

\* mutant: the count of every department is incremented
NextDepartmentResponseCount_AllDepartments(d, one) ==
    [c \in Departments |-> FHE_add(departmentResponseCount[c], one)]

\* departmentResponseCount[d] = FHE.add(departmentResponseCount[d], one)
NextDepartmentResponseCount(d, one) ==
    [departmentResponseCount EXCEPT ![d] = FHE_add(@, one)]

\* mutant: the four new handles are granted to the contract only
SubmitGrants_ContractOnly(sum, count, dsum, dcount) ==
    {sum, count, dsum, dcount} \X {This}

\* mutant: the four new handles are granted to every current manager too
SubmitGrants_AllManagers(sum, count, dsum, dcount) ==
    {sum, count, dsum, dcount} \X ({This, deployer} \cup {a \in Identities : managers[a]})

\* FHE.allowThis / FHE.allow(.., deployer) on the four new handles
SubmitGrants(sum, count, dsum, dcount) ==
    {sum, count, dsum, dcount} \X {This, deployer}

\* mutant: the dedup entry is never set
MarkSubmitted_NoWrite(sender, d) == hasSubmittedToDepartment

\* mutant: the sender is marked for every department
MarkSubmitted_AllDepartments(sender, d) ==
    [hasSubmittedToDepartment EXCEPT ![sender] = [c \in Departments |-> TRUE]]

\* hasSubmittedToDepartment[msg.sender][plaintextDepartmentId] = true
MarkSubmitted(sender, d) ==
    [hasSubmittedToDepartment EXCEPT ![sender][d] = TRUE]

\* mutant: the event carries the length after the push
SurveySubmitted_LengthAfter(responseId, employee, now) ==
    <<"SurveySubmitted", responseId + 1, employee, now>>

\* emit SurveySubmitted(responses.length - 1, msg.sender, block.timestamp)
SurveySubmitted(responseId, employee, now) ==
    <<"SurveySubmitted", responseId, employee, now>>

submitSurvey(sender, encryptedRating, encryptedDepartment, d, encryptedFeedback, now) ==
    IF ~NotYetSubmitted(sender, d)
    THEN Revert("submitSurvey", sender, "DuplicateSubmission")
    ELSE IF ~ProofVerifies(encryptedRating, sender) \/ ~ProofVerifies(encryptedDepartment, sender)
    THEN Revert("submitSurvey", sender, "InvalidProof")
    ELSE
        LET rating == FHE_fromExternal(encryptedRating)
            department == FHE_fromExternal(encryptedDepartment)
            one == FHE_asEuint32(1)
            sum == NextTotalRatingSum(rating)
            count == NextResponseCount(one)
            dsum == NextDepartmentRatingSum(d, rating)
            dcount == NextDepartmentResponseCount(d, one)
        IN  /\ Len(responses) < MaxResponses
            /\ responses' = Append(responses,
                   SurveyResponse(rating, department, encryptedFeedback, now, sender))
            /\ totalRatingSum' = sum
            /\ responseCount' = count
            /\ departmentRatingSum' = dsum
            /\ departmentResponseCount' = dcount
            /\ acl' = Allow(acl, SubmitGrants(sum, count, dsum[d], dcount[d]))
            /\ hasSubmittedToDepartment' = MarkSubmitted(sender, d)
            /\ accepted' = Append(accepted,
                   [employee |-> sender, department |-> d, rating |-> Decrypt(encryptedRating)])
            /\ ret' = Outcome("submitSurvey", sender, "ok", None,
                   <<SurveySubmitted(Len(responses') - 1, sender, now)>>)
            /\ UNCHANGED <<managers, deployer, frontend>>

\* ------------------------------------------------------------------------
\* reads
\* ------------------------------------------------------------------------
\* mutant: a read leaves the caller a grant on the count
View_GrantsCaller(op, sender, value) ==
    /\ ret' = Outcome(op, sender, "ok", value, <<>>)
    /\ acl' = acl \cup {<<responseCount, sender>>}
    /\ UNCHANGED <<storage, history, frontend>>

\* a view function: it returns `value` and changes nothing
View(op, sender, value) ==
    /\ ret' = Outcome(op, sender, "ok", value, <<>>)
    /\ UNCHANGED <<storage, acl, history, frontend>>

\* mutant: the read returns the count
getAverageRating_ReturnsCount(sender) ==
    IF ~onlyManager(sender)
    THEN Revert("getAverageRating", sender, "Unauthorized")
    ELSE View("getAverageRating", sender, responseCount)

getAverageRating(sender) ==
    IF ~onlyManager(sender)
    THEN Revert("getAverageRating", sender, "Unauthorized")
    ELSE View("getAverageRating", sender, totalRatingSum)

getResponseCount(sender) ==
    IF ~onlyManager(sender)
    THEN Revert("getResponseCount", sender, "Unauthorized")
    ELSE View("getResponseCount", sender, responseCount)

getTotalRatingSum(sender) ==
    IF ~onlyManager(sender)
    THEN Revert("getTotalRatingSum", sender, "Unauthorized")
    ELSE View("getTotalRatingSum", sender, totalRatingSum)

getDepartmentStats(sender, departmentId) ==
    IF ~onlyManager(sender)
    THEN Revert("getDepartmentStats", sender, "Unauthorized")
    ELSE View("getDepartmentStats", sender,
              <<departmentRatingSum[departmentId], departmentResponseCount[departmentId]>>)

\* mutant: the index of the last response instead of the length
ResponseArrayLength_LastIndex == IF responses = <<>> THEN 0 ELSE Len(responses) - 1

\* responses.length
ResponseArrayLength == Len(responses)

getResponseArrayLength(sender) ==
    View("getResponseArrayLength", sender, ResponseArrayLength)

\* ------------------------------------------------------------------------
\* administration
\* ------------------------------------------------------------------------
\* mutant: only the sum of the department is granted
DepartmentGrants_SumOnly(manager, departmentId) ==
    {<<departmentRatingSum[departmentId], manager>>}

\* the grants of one department: FHE.allow on its sum and on its count
DepartmentGrants(manager, departmentId) ==
    {<<departmentRatingSum[departmentId], manager>>,
     <<departmentResponseCount[departmentId], manager>>}

\* mutant: addManager also grants every department that has statistics
AddManagerGrants_AlsoDepartments(manager) ==
    IF Len(responses) > 0
    THEN {<<totalRatingSum, manager>>, <<responseCount, manager>>}
         \cup UNION {DepartmentGrants(manager, c) :
                       c \in {x \in Departments : FHE_isInitialized(departmentRatingSum[x])}}
    ELSE {}

\* the grants addManager issues
AddManagerGrants(manager) ==
    IF Len(responses) > 0
    THEN {<<totalRatingSum, manager>>, <<responseCount, manager>>}
    ELSE {}

\* mutant: addManager flips the flag
ManagerAdded_Toggles(manager) == [managers EXCEPT ![manager] = ~@]

\* mutant: addManager leaves the flag as it is
ManagerAdded_NoWrite(manager) == managers

\* managers[manager] = true
ManagerAdded(manager) == [managers EXCEPT ![manager] = TRUE]

addManager(sender, manager) ==
    IF ~onlyManager(sender)
    THEN Revert("addManager", sender, "Unauthorized")
    ELSE IF ~CanAllow(acl, AddManagerGrants(manager))
    THEN Revert("addManager", sender, "SenderNotAllowed")
    ELSE
        /\ managers' = ManagerAdded(manager)
        /\ acl' = Allow(acl, AddManagerGrants(manager))
        /\ ret' = Outcome("addManager", sender, "ok", None,
               <<<<"ManagerAdded", manager, sender>>>>)
        /\ UNCHANGED <<hasSubmittedToDepartment, deployer, responses, totalRatingSum,
                       responseCount, departmentRatingSum, departmentResponseCount,
                       history, frontend>>

\* mutant: the flag is set as in addManager
ManagerRemoved_SetsTrue(manager) == [managers EXCEPT ![manager] = TRUE]

\* managers[manager] = false
ManagerRemoved(manager) == [managers EXCEPT ![manager] = FALSE]

removeManager(sender, manager) ==
    IF ~onlyManager(sender)
    THEN Revert("removeManager", sender, "Unauthorized")
    ELSE
        /\ managers' = ManagerRemoved(manager)
        /\ ret' = Outcome("removeManager", sender, "ok", None,
               <<<<"ManagerRemoved", manager, sender>>>>)
        /\ UNCHANGED <<hasSubmittedToDepartment, deployer, responses, totalRatingSum,
                       responseCount, departmentRatingSum, departmentResponseCount,
                       acl, history, frontend>>

\* mutant: the address granted need not be a manager
TargetIsManager_Anyone(manager) == TRUE

\* require(managers[manager], "Address is not a manager")
TargetIsManager(manager) == managers[manager]

\* mutant: the grant makes the address a manager instead of requiring it
grantDepartmentAccess_Promotes(sender, manager, departmentId) ==
    IF ~onlyManager(sender)
    THEN Revert("grantDepartmentAccess", sender, "Unauthorized")
    ELSE IF ~CanAllow(acl, DepartmentGrants(manager, departmentId))
    THEN Revert("grantDepartmentAccess", sender, "SenderNotAllowed")
    ELSE
        /\ managers' = ManagerAdded(manager)
        /\ acl' = Allow(acl, DepartmentGrants(manager, departmentId))
        /\ ret' = Outcome("grantDepartmentAccess", sender, "ok", None, <<>>)
        /\ UNCHANGED <<hasSubmittedToDepartment, deployer, responses, totalRatingSum,
                       responseCount, departmentRatingSum, departmentResponseCount,
                       history, frontend>>

grantDepartmentAccess(sender, manager, departmentId) ==
    IF ~onlyManager(sender)
    THEN Revert("grantDepartmentAccess", sender, "Unauthorized")
    ELSE IF ~TargetIsManager(manager)
    THEN Revert("grantDepartmentAccess", sender, "NotAManager")
    ELSE IF ~CanAllow(acl, DepartmentGrants(manager, departmentId))
    THEN Revert("grantDepartmentAccess", sender, "SenderNotAllowed")
    ELSE
        /\ acl' = Allow(acl, DepartmentGrants(manager, departmentId))
        /\ ret' = Outcome("grantDepartmentAccess", sender, "ok", None, <<>>)
        /\ UNCHANGED <<storage, history, frontend>>

\* the loop over departmentIds[i .. length-1]
RECURSIVE MultipleDepartmentGrants(_, _, _)
MultipleDepartmentGrants(manager, departmentIds, i) ==
    IF i > Len(departmentIds)
    THEN {}
    ELSE DepartmentGrants(manager, departmentIds[i])
            \cup MultipleDepartmentGrants(manager, departmentIds, i + 1)

DepartmentIdArrays ==
    UNION {[1..n -> Departments] : n \in 0..MaxIds}

\* mutant: a failing FHE.allow ends the call but keeps the other grants
grantMultipleDepartmentAccess_Partial(sender, manager, departmentIds) ==
    IF ~onlyManager(sender)
    THEN Revert("grantMultipleDepartmentAccess", sender, "Unauthorized")
    ELSE IF ~TargetIsManager(manager)
    THEN Revert("grantMultipleDepartmentAccess", sender, "NotAManager")
    ELSE
        /\ acl' = Allow(acl, {g \in MultipleDepartmentGrants(manager, departmentIds, 1) :
                                SenderAllowed(acl, g[1])})
        /\ ret' = Outcome("grantMultipleDepartmentAccess", sender,
               IF CanAllow(acl, MultipleDepartmentGrants(manager, departmentIds, 1))
               THEN "ok" ELSE "SenderNotAllowed", None, <<>>)
        /\ UNCHANGED <<storage, history, frontend>>

grantMultipleDepartmentAccess(sender, manager, departmentIds) ==
    IF ~onlyManager(sender)
    THEN Revert("grantMultipleDepartmentAccess", sender, "Unauthorized")
    ELSE IF ~TargetIsManager(manager)
    THEN Revert("grantMultipleDepartmentAccess", sender, "NotAManager")
    ELSE IF ~CanAllow(acl, MultipleDepartmentGrants(manager, departmentIds, 1))
    THEN Revert("grantMultipleDepartmentAccess", sender, "SenderNotAllowed")
    ELSE
        /\ acl' = Allow(acl, MultipleDepartmentGrants(manager, departmentIds, 1))
        /\ ret' = Outcome("grantMultipleDepartmentAccess", sender, "ok", None, <<>>)
        /\ UNCHANGED <<storage, history, frontend>>

\* the ciphertexts of department d itself
MatchingDepartments(d) == {e \in ExternalDepartments : Decrypt(e) = U32(d)}

\* ------------------------------------------------------------------------
\* the contract: any account calls any function with any arguments
\* ------------------------------------------------------------------------
Next ==
    \/ \E sender \in Identities, r \in ExternalRatings, d \in Departments :
          \E e \in MatchingDepartments(d), f \in Feedbacks, now \in Timestamps :
            submitSurvey(sender, r, e, d, f, now)
    \/ \E sender \in Identities : getAverageRating(sender)
    \/ \E sender \in Identities : getResponseCount(sender)
    \/ \E sender \in Identities : getTotalRatingSum(sender)
    \/ \E sender \in Identities, d \in Departments : getDepartmentStats(sender, d)
    \/ \E sender \in Identities : getResponseArrayLength(sender)
    \/ \E sender \in Identities, manager \in Identities : addManager(sender, manager)
    \/ \E sender \in Identities, manager \in Identities : removeManager(sender, manager)
    \/ \E sender \in Identities, manager \in Identities, d \in Departments :
            grantDepartmentAccess(sender, manager, d)
    \/ \E sender \in Identities, manager \in Identities, ids \in DepartmentIdArrays :
            grantMultipleDepartmentAccess(sender, manager, ids)

Spec == Init /\ [][Next]_vars


\* ------------------------------------------------------------------------
\* submitSurvey called directly: the contract takes the encrypted department
\* and the plaintext department id as two arguments and any pair of them can
\* be passed
\* ------------------------------------------------------------------------
DirectNext ==
    \E sender \in Identities, r \in ExternalRatings, e \in ExternalDepartments,
       d \in Departments, f \in Feedbacks, now \in Timestamps :
        submitSurvey(sender, r, e, d, f, now)

DirectSpec == Init /\ [][DirectNext]_vars

\* ------------------------------------------------------------------------
\* The useEmployeeSurvey hook: refreshStats, refreshDepartmentStats and
\* decryptStats are asynchronous; each action below is the code between two
\* awaits, and the signer and the chain can change while a call is awaited
\* ------------------------------------------------------------------------
contract == <<storage, acl, ret, history>>

\* the deployment the hook finds for a chain: chain 1 has one, chain 2 none
getEmployeeSurveyByChainId(c) ==
    IF c = 1
    THEN [address |-> "0xSurvey", chainId |-> c]
    ELSE [address |-> Undefined, chainId |-> c]

\* surveyRef.current, assigned when chainId changes
surveyRef == getEmployeeSurveyByChainId(chainId)

\* the predicates the caller passes in: is this still the chain, the signer?
sameChain(c) == c = chainId
sameSigner(s) == s = ethersSigner

\* sameChain.current(thisChainId) && thisSurveyAddress === surveyRef.current?.address
StillSameDeployment(run) ==
    sameChain(run.thisChainId) /\ run.thisSurveyAddress = surveyRef.address

\* a view of the contract called for `account`: it reverts in onlyManager
ViewReverts(account) == ~onlyManager(account)

\* refreshStats, up to the await of managers()
refreshStats ==
    /\ refreshRun.pc = "idle"
    /\ IF surveyRef.address = Undefined \/ ethersSigner = Undefined
       THEN /\ handleResponseCount' = NoHandle
            /\ handleTotalRatingSum' = NoHandle
            /\ UNCHANGED refreshRun
       ELSE /\ refreshRun' = [pc |-> "managers",
                              thisChainId |-> surveyRef.chainId,
                              thisSurveyAddress |-> surveyRef.address,
                              thisEthersSigner |-> ethersSigner]
            /\ UNCHANGED <<handleResponseCount, handleTotalRatingSum>>
    /\ UNCHANGED <<contract, chainId, ethersSigner, isManager, departmentStats,
                   clearResponseCount, clearRatingSum, clearDepartmentStats,
                   departmentsRun, decryptRun>>

\* refreshStats, from the result of managers() to the await of the two reads
refreshStatsManagers ==
    /\ refreshRun.pc = "managers"
    /\ LET isMgr == managers[refreshRun.thisEthersSigner]
       IN  IF StillSameDeployment(refreshRun)
           THEN /\ isManager' = isMgr
                /\ IF isMgr
                   THEN /\ refreshRun' = [refreshRun EXCEPT !.pc = "stats"]
                        /\ UNCHANGED <<handleResponseCount, handleTotalRatingSum>>
                   ELSE /\ refreshRun' = Idle
                        /\ handleResponseCount' = NoHandle
                        /\ handleTotalRatingSum' = NoHandle
           ELSE /\ refreshRun' = Idle
                /\ UNCHANGED <<isManager, handleResponseCount, handleTotalRatingSum>>
    /\ UNCHANGED <<contract, chainId, ethersSigner, departmentStats,
                   clearResponseCount, clearRatingSum, clearDepartmentStats,
                   departmentsRun, decryptRun>>

\* refreshStats, from the results of getResponseCount() and
\* getTotalRatingSum() to the end
refreshStatsHandles ==
    /\ refreshRun.pc = "stats"
    /\ refreshRun' = Idle
    /\ IF ~ViewReverts(refreshRun.thisEthersSigner) /\ StillSameDeployment(refreshRun)
       THEN /\ handleResponseCount' = responseCount
            /\ handleTotalRatingSum' = totalRatingSum
       ELSE UNCHANGED <<handleResponseCount, handleTotalRatingSum>>
    /\ UNCHANGED <<contract, chainId, ethersSigner, isManager, departmentStats,
                   clearResponseCount, clearRatingSum, clearDepartmentStats,
                   departmentsRun, decryptRun>>

\* refreshDepartmentStats, up to the first await of getDepartmentStats()
refreshDepartmentStats ==
    /\ departmentsRun.pc = "idle"
    /\ isManager
    /\ surveyRef.address # Undefined
    /\ ethersSigner # Undefined
    /\ departmentsRun' = [pc |-> "loading", deptId |-> 1, newStats |-> EmptyMap,
                          thisChainId |-> surveyRef.chainId,
                          thisSurveyAddress |-> surveyRef.address,
                          thisEthersSigner |-> ethersSigner]
    /\ UNCHANGED <<contract, chainId, ethersSigner, isManager, handleResponseCount,
                   handleTotalRatingSum, departmentStats, clearResponseCount,
                   clearRatingSum, clearDepartmentStats, refreshRun, decryptRun>>

\* map.set(key, value)
MapSet(map, key, value) ==
    [k \in DOMAIN map \cup {key} |-> IF k = key THEN value ELSE map[k]]

\* refreshDepartmentStats, from the result of one getDepartmentStats() to the
\* next await, or to the end after the last department
refreshDepartmentStatsNext ==
    /\ departmentsRun.pc = "loading"
    /\ LET deptId == departmentsRun.deptId
           newStats ==
               IF ~ViewReverts(departmentsRun.thisEthersSigner)
                  /\ StillSameDeployment(departmentsRun)
               THEN MapSet(departmentsRun.newStats, deptId,
                           [ratingSum |-> departmentRatingSum[deptId],
                            count |-> departmentResponseCount[deptId]])
               ELSE departmentsRun.newStats
       IN  IF deptId + 1 \in Departments
           THEN /\ departmentsRun' = [departmentsRun EXCEPT !.deptId = deptId + 1,
                                                            !.newStats = newStats]
                /\ UNCHANGED departmentStats
           ELSE /\ departmentsRun' = Idle
                /\ IF StillSameDeployment(departmentsRun)
                   THEN departmentStats' = newStats
                   ELSE UNCHANGED departmentStats
    /\ UNCHANGED <<contract, chainId, ethersSigner, isManager, handleResponseCount,
                   handleTotalRatingSum, clearResponseCount, clearRatingSum,
                   clearDepartmentStats, refreshRun, decryptRun>>

\* the handles of the two totals that decryptStats asks to decrypt
GlobalHandles(run) ==
    {h \in {run.responseCount, run.totalRatingSum} : h # NoHandle /\ h # ZeroHandle}

\* a department whose two handles are both there
HasBothHandles(stats) == stats.ratingSum # ZeroHandle /\ stats.count # ZeroHandle

\* allDeptHandles: the handles of the departments that have both
AllDeptHandles(run) ==
    UNION {{run.departmentStats[c].ratingSum, run.departmentStats[c].count} :
              c \in {k \in DOMAIN run.departmentStats :
                        HasBothHandles(run.departmentStats[k])}}

\* deptHandleMap maps a handle to the first department that pushed it
FirstPushedBy(run, c, h) ==
    \A k \in DOMAIN run.departmentStats :
        k < c /\ HasBothHandles(run.departmentStats[k]) =>
            h \notin {run.departmentStats[k].ratingSum, run.departmentStats[k].count}

\* newClearDeptStats: the departments for which a sum and a count came back
NewClearDeptStats(run) ==
    [c \in {k \in DOMAIN run.departmentStats :
               /\ HasBothHandles(run.departmentStats[k])
               /\ FirstPushedBy(run, k, run.departmentStats[k].ratingSum)
               /\ FirstPushedBy(run, k, run.departmentStats[k].count)} |->
        [ratingSum |-> Decrypt(run.departmentStats[c].ratingSum),
         count |-> Decrypt(run.departmentStats[c].count)]]

\* instance.userDecrypt(handles, ...) for `user`: it throws unless the user is
\* allowed on every handle
UserDecryptThrows(handles, user) == \E h \in handles : <<h, user>> \notin acl

\* mutant: the run is stale only when the deployment changed
isStale_DeploymentOnly(run) ==
    \/ run.thisSurveyAddress # surveyRef.address
    \/ ~sameChain(run.thisChainId)

\* isStale() of decryptStats
isStale(run) ==
    \/ run.thisSurveyAddress # surveyRef.address
    \/ ~sameChain(run.thisChainId)
    \/ ~sameSigner(run.thisEthersSigner)

\* decryptStats, up to the await of loadOrSign()
decryptStats ==
    /\ refreshRun.pc = "idle" /\ decryptRun.pc = "idle"
    /\ surveyRef.address # Undefined /\ ethersSigner # Undefined /\ isManager
    /\ handleResponseCount # NoHandle \/ handleTotalRatingSum # NoHandle
    /\ decryptRun' = [pc |-> "loadOrSign",
                      thisChainId |-> chainId,
                      thisSurveyAddress |-> surveyRef.address,
                      thisEthersSigner |-> ethersSigner,
                      responseCount |-> handleResponseCount,
                      totalRatingSum |-> handleTotalRatingSum,
                      departmentStats |-> departmentStats]
    /\ UNCHANGED <<contract, chainId, ethersSigner, isManager, handleResponseCount,
                   handleTotalRatingSum, departmentStats, clearResponseCount,
                   clearRatingSum, clearDepartmentStats, refreshRun, departmentsRun>>

\* decryptStats, from the result of loadOrSign() to the await of the first
\* userDecrypt(); sig is null when the signature could not be built
decryptStatsSigned(sig) ==
    /\ decryptRun.pc = "loadOrSign"
    /\ IF sig = Undefined \/ isStale(decryptRun)
       THEN decryptRun' = Idle
       ELSE decryptRun' = [decryptRun EXCEPT !.pc = "userDecrypt"]
    /\ UNCHANGED <<contract, chainId, ethersSigner, isManager, handleResponseCount,
                   handleTotalRatingSum, departmentStats, clearResponseCount,
                   clearRatingSum, clearDepartmentStats, refreshRun, departmentsRun>>

\* { handle, clear }, with the signer the value was decrypted for
ClearValue(h, signer) == [handle |-> h, clear |-> Decrypt(h), signer |-> signer]

\* decryptStats, from the result of the first userDecrypt() to the await of
\* the second, or to the end when there is no department handle
decryptStatsDecrypted ==
    /\ decryptRun.pc = "userDecrypt"
    /\ IF UserDecryptThrows(GlobalHandles(decryptRun), decryptRun.thisEthersSigner)
          \/ isStale(decryptRun)
       THEN /\ decryptRun' = Idle
            /\ UNCHANGED <<clearResponseCount, clearRatingSum>>
       ELSE /\ clearResponseCount' =
                   IF decryptRun.responseCount \in GlobalHandles(decryptRun)
                   THEN ClearValue(decryptRun.responseCount, decryptRun.thisEthersSigner)
                   ELSE clearResponseCount
            /\ clearRatingSum' =
                   IF decryptRun.totalRatingSum \in GlobalHandles(decryptRun)
                   THEN ClearValue(decryptRun.totalRatingSum, decryptRun.thisEthersSigner)
                   ELSE clearRatingSum
            /\ IF AllDeptHandles(decryptRun) # {}
               THEN decryptRun' = [decryptRun EXCEPT !.pc = "userDecryptDepartments"]
               ELSE decryptRun' = Idle
    /\ UNCHANGED <<contract, chainId, ethersSigner, isManager, handleResponseCount,
                   handleTotalRatingSum, departmentStats, clearDepartmentStats,
                   refreshRun, departmentsRun>>

\* decryptStats, from the result of the second userDecrypt() to the end
decryptStatsDepartmentsDecrypted ==
    /\ decryptRun.pc = "userDecryptDepartments"
    /\ decryptRun' = Idle
    /\ IF ~UserDecryptThrows(AllDeptHandles(decryptRun), decryptRun.thisEthersSigner)
          /\ StillSameDeployment(decryptRun)
       THEN clearDepartmentStats' = [stats |-> NewClearDeptStats(decryptRun),
                                     signer |-> decryptRun.thisEthersSigner]
       ELSE UNCHANGED clearDepartmentStats
    /\ UNCHANGED <<contract, chainId, ethersSigner, isManager, handleResponseCount,
                   handleTotalRatingSum, departmentStats, clearResponseCount,
                   clearRatingSum, refreshRun, departmentsRun>>

\* the wallet switches to another account, or disconnects
SignerChanged(signer) ==
    /\ signer # ethersSigner
    /\ ethersSigner' = signer
    /\ UNCHANGED <<contract, chainId, isManager, handleResponseCount,
                   handleTotalRatingSum, departmentStats, clearResponseCount,
                   clearRatingSum, clearDepartmentStats, refreshRun, departmentsRun,
                   decryptRun>>

\* the wallet switches to another chain
ChainChanged(c) ==
    /\ c # chainId
    /\ chainId' = c
    /\ UNCHANGED <<contract, ethersSigner, isManager, handleResponseCount,
                   handleTotalRatingSum, departmentStats, clearResponseCount,
                   clearRatingSum, clearDepartmentStats, refreshRun, departmentsRun,
                   decryptRun>>

\* the transactions that happen while the hook is observed
MaxSurveyTransactions == 1

\* a survey is submitted to the contract, with the inputs the clients build
SurveyTransaction ==
    \E sender \in Identities, v \in RatingValues, d \in Departments,
       f \in Feedbacks, now \in Timestamps :
        /\ Len(responses) < MaxSurveyTransactions
        /\ NotYetSubmitted(sender, d)
        /\ submitSurvey(sender, External(sender, v), External(sender, U32(d)), d, f, now)

HookNext ==
    \/ refreshStats
    \/ refreshStatsManagers
    \/ refreshStatsHandles
    \/ refreshDepartmentStats
    \/ refreshDepartmentStatsNext
    \/ decryptStats
    \/ \E sig \in {Undefined, "signature"} : decryptStatsSigned(sig)
    \/ decryptStatsDecrypted
    \/ decryptStatsDepartmentsDecrypted
    \/ \E signer \in Identities \cup {Undefined} : SignerChanged(signer)
    \/ \E c \in ChainIds : ChainChanged(c)
    \/ SurveyTransaction

HookSpec == Init /\ [][HookNext]_vars

\* ========================================================================
\* Properties
\* ========================================================================
ManagerReads == {"getAverageRating", "getResponseCount", "getTotalRatingSum",
                 "getDepartmentStats"}

\* the latest call was `op` and it succeeded
Succeeded(op) == ret.op = op /\ ret.status = "ok"

\* the step is a call of `op` that succeeds
Succeeds(op) == ret'.op = op /\ ret'.status = "ok"

\* the plaintext arguments of the latest accepted submission
LastAccepted == accepted[Len(accepted)]

\* reduction of a natural number <<hi, lo>> modulo 2^32
Mod32(x) == <<x[1] % Half, x[2]>>

\* the sum, over the naturals, of the ratings of those of the accepted
\* submissions 1..n whose category is in cs
RECURSIVE RatingSum(_, _)
RatingSum(n, cs) ==
    IF n = 0 THEN U32(0)
    ELSE IF accepted[n].department \in cs
         THEN AddNat(RatingSum(n - 1, cs), accepted[n].rating)
         ELSE RatingSum(n - 1, cs)

TotalOfRatings == RatingSum(Len(accepted), Departments)

InDepartment(c) == {n \in 1..Len(accepted) : accepted[n].department = c}

DepartmentOfRatings(c) == RatingSum(Len(accepted), {c})

\* ------------------------------------------------------------------------
\* C1: a submission of identity i to category c is accepted only when
\* hasSubmittedToDepartment[i][c] is false; the entry, once true, stays true,
\* and every later submitSurvey of i to c reverts with DuplicateSubmission
\* and changes nothing.
C1_AtMostOncePerPair ==
    [][ /\ \A i \in Identities, c \in Departments :
            hasSubmittedToDepartment[i][c] => hasSubmittedToDepartment'[i][c]
        /\ ret'.op = "submitSurvey" =>
            \A c \in Departments :
                (/\ hasSubmittedToDepartment[ret'.sender][c]
                 /\ \E r \in ExternalRatings, e \in ExternalDepartments,
                       f \in Feedbacks, now \in 1..MaxTime :
                         submitSurvey(ret'.sender, r, e, c, f, now))
                => /\ ret'.status = "DuplicateSubmission"
                   /\ UNCHANGED <<storage, acl, accepted>>
        /\ Succeeds("submitSurvey") =>
            /\ Len(accepted') = Len(accepted) + 1
            /\ ~hasSubmittedToDepartment[accepted'[Len(accepted')].employee]
                                        [accepted'[Len(accepted')].department]
            /\ hasSubmittedToDepartment'[accepted'[Len(accepted')].employee]
                                        [accepted'[Len(accepted')].department]
      ]_vars

\* a second submission of the same identity to the same category was refused
C1_Witness ==
    /\ ret.op = "submitSurvey"
    /\ ret.status = "DuplicateSubmission"
    /\ \E c \in Departments : hasSubmittedToDepartment[ret.sender][c]

Granted(h) == {p[2] : p \in {q \in acl : q[1] = h}}

\* x holds a grant on the sum or on the count of category c
HoldsDepartment(x, c) ==
    \/ <<departmentRatingSum[c], x>> \in acl
    \/ <<departmentResponseCount[c], x>> \in acl

\* the address argument of the latest addManager / removeManager, as emitted
Target == ret.events[1][2]

\* ------------------------------------------------------------------------
\* C4: a manager-gated read succeeds if and only if the caller's manager flag
\* is true at the call, and fails with Unauthorized otherwise.
C4_ReadsNeedLiveRole ==
    ret.op \in ManagerReads =>
        /\ ret.status = "ok" <=> managers[ret.sender]
        /\ ret.status # "ok" => ret.status = "Unauthorized"

\* a former manager that still holds a grant on the current total is refused
C4_Witness ==
    /\ ret.op \in ManagerReads
    /\ ret.status = "Unauthorized"
    /\ ret.sender # deployer
    /\ <<totalRatingSum, ret.sender>> \in acl

\* ------------------------------------------------------------------------
\* C5: a successful removeManager(target) sets managers[target] to false and
\* changes nothing else; in particular every grant is as before the call.
C5_RemoveManagerFrame ==
    [][Succeeds("removeManager") =>
        /\ managers' = [managers EXCEPT ![ret'.events[1][2]] = FALSE]
        /\ acl' = acl
        /\ UNCHANGED <<hasSubmittedToDepartment, deployer, responses,
                       totalRatingSum, responseCount, departmentRatingSum,
                       departmentResponseCount, accepted>>]_vars

\* the manager just removed keeps its grant on the current totals
C5_Witness ==
    /\ Succeeded("removeManager")
    /\ Target # deployer
    /\ ~managers[Target]
    /\ {<<totalRatingSum, Target>>, <<responseCount, Target>>} \subseteq acl

C7_ManagersGrantedOnSubmit ==
    Succeeded("submitSurvey") =>
        \A x \in {This} \cup {i \in Identities : managers[i]} :
            /\ <<totalRatingSum, x>> \in acl
            /\ <<responseCount, x>> \in acl

NamedHandles(departmentIds) ==
    UNION {{departmentRatingSum[departmentIds[i]],
            departmentResponseCount[departmentIds[i]]} : i \in 1..Len(departmentIds)}

C10_LengthIsAcceptedCount ==
    /\ [](/\ Len(responses) = Len(accepted)
          /\ ret.op = "getResponseArrayLength" =>
                ret.status = "ok" /\ ret.value = Len(accepted))
    /\ [][Len(responses') = Len(responses) + (IF Succeeds("submitSurvey") THEN 1 ELSE 0)]_vars

\* an account that is not a manager reads the length of a log of two
C10_Witness ==
    /\ Succeeded("getResponseArrayLength")
    /\ ~managers[ret.sender]
    /\ ret.value = 2
    /\ Len(accepted) = 2

\* ------------------------------------------------------------------------
\* the indices of the records of the log that identity i submitted naming
\* category c
RecordsOf(i, c) ==
    {n \in 1..Len(responses) :
        /\ responses[n].employeeAddress = i
        /\ accepted[n].employee = i
        /\ accepted[n].department = c}

\* the pairs whose dedup entry is true
SubmittedPairs ==
    {p \in Identities \X Departments : hasSubmittedToDepartment[p[1]][p[2]]}

\* C11: hasSubmittedToDepartment[i][c] is true if and only if the log holds
\* a record that i submitted for category c; there is at most one such
\* record per pair, and the number of true entries is the length of the log.
C11_DedupMatchesLog ==
    /\ Len(accepted) = Len(responses)
    /\ \A i \in Identities, c \in Departments :
         /\ hasSubmittedToDepartment[i][c] <=> RecordsOf(i, c) # {}
         /\ Cardinality(RecordsOf(i, c)) <= 1
    /\ Cardinality(SubmittedPairs) = Len(responses)

\* one identity has a record for each of two categories and the other
\* identity has none
C11_Witness ==
    \E i \in Identities, j \in Identities :
        /\ \A c \in Departments : Cardinality(RecordsOf(i, c)) = 1
        /\ \A c \in Departments : ~hasSubmittedToDepartment[j][c]
        /\ Cardinality(SubmittedPairs) = 2

\* ------------------------------------------------------------------------
\* C12: a submitSurvey that fails changes nothing and emits no event: it
\* fails with DuplicateSubmission when the pair has submitted, and with
\* InvalidProof when the pair has not and an input was not made by the
\* sender; after an InvalidProof failure the pair is still free to submit,
\* and a submission of the pair with its own inputs is accepted.
C12_FailedSubmitLeavesNoTrace ==
    [][ /\ (ret'.op = "submitSurvey" /\ ret'.status # "ok") =>
              /\ ret'.status \in {"DuplicateSubmission", "InvalidProof"}
              /\ ret'.events = <<>>
              /\ UNCHANGED <<storage, acl, accepted>>
        /\ ret'.op = "submitSurvey" =>
            \A c \in Departments, r \in ExternalRatings, e \in ExternalDepartments :
                (/\ ~hasSubmittedToDepartment[ret'.sender][c]
                 /\ \E f \in Feedbacks, now \in 1..MaxTime :
                       submitSurvey(ret'.sender, r, e, c, f, now))
                => IF r[2] = ret'.sender /\ e[2] = ret'.sender
                   THEN ret'.status = "ok"
                   ELSE /\ ret'.status = "InvalidProof"
                        /\ ~hasSubmittedToDepartment'[ret'.sender][c]
      ]_vars

\* a submission was refused for its proof, after an accepted one, and left
\* the sender free to submit to a category
C12_Witness ==
    /\ ret.op = "submitSurvey"
    /\ ret.status = "InvalidProof"
    /\ ret.events = <<>>
    /\ Len(responses) = 1
    /\ \E c \in Departments : ~hasSubmittedToDepartment[ret.sender][c]

\* ------------------------------------------------------------------------
\* C13: the log is append-only and ordered by commit: an accepted submission
\* is stored at the index that was the length of the log before the call,
\* SurveySubmitted carries that index as responseId, and no call changes,
\* moves or removes a record that is in the log.
C13_LogAppendOnly ==
    [][ /\ Len(responses') >= Len(responses)
        /\ SubSeq(responses', 1, Len(responses)) = responses
        /\ IF Succeeds("submitSurvey")
           THEN /\ Len(responses') = Len(responses) + 1
                /\ responses'[Len(responses) + 1].employeeAddress = ret'.sender
                /\ ret'.events[1][1] = "SurveySubmitted"
                /\ ret'.events[1][2] = Len(responses)
                /\ ret'.events[1][3] = ret'.sender
           ELSE responses' = responses
      ]_vars

\* the second accepted submission got responseId 1
C13_Witness ==
    /\ Succeeded("submitSurvey")
    /\ Len(responses) = 2
    /\ ret.events[1][2] = 1
    /\ responses[2].employeeAddress = ret.sender

\* ------------------------------------------------------------------------
\* the functions that change roles or grants
AdminOps == {"addManager", "removeManager", "grantDepartmentAccess",
             "grantMultipleDepartmentAccess"}

\* C14: addManager, removeManager, grantDepartmentAccess and
\* grantMultipleDepartmentAccess called by an identity whose manager flag is
\* false fail with Unauthorized and change neither roles nor grants; the
\* error is Unauthorized also when the address named is not a manager.
C14_AdminNeedsManager ==
    [][ /\ (ret'.op \in AdminOps /\ ~managers[ret'.sender]) =>
              /\ ret'.status = "Unauthorized"
              /\ ret'.events = <<>>
              /\ UNCHANGED <<storage, acl, accepted>>
        /\ ret'.op \in {"grantDepartmentAccess", "grantMultipleDepartmentAccess"} =>
            \A t \in Identities :
                (/\ ~managers[ret'.sender]
                 /\ ~managers[t]
                 /\ \/ \E c \in Departments : grantDepartmentAccess(ret'.sender, t, c)
                    \/ \E ids \in DepartmentIdArrays :
                          grantMultipleDepartmentAccess(ret'.sender, t, ids))
                => ret'.status = "Unauthorized"
      ]_vars

\* nobody is a manager any more, so that the caller and the address it named
\* are both non-managers, and the grant call was refused as Unauthorized
C14_Witness ==
    /\ ret.op \in {"grantDepartmentAccess", "grantMultipleDepartmentAccess"}
    /\ ret.status = "Unauthorized"
    /\ \A i \in Identities : ~managers[i]

\* ------------------------------------------------------------------------
\* C15: grantDepartmentAccess and grantMultipleDepartmentAccess called by a
\* manager for an address whose manager flag is false fail with NotAManager
\* and add no grant, also when the address was a manager before.
C15_GrantNeedsManagerTarget ==
    [][ret'.op \in {"grantDepartmentAccess", "grantMultipleDepartmentAccess"} =>
        \A t \in Identities :
            (/\ managers[ret'.sender]
             /\ ~managers[t]
             /\ \/ \E c \in Departments : grantDepartmentAccess(ret'.sender, t, c)
                \/ \E ids \in DepartmentIdArrays :
                      grantMultipleDepartmentAccess(ret'.sender, t, ids))
            => /\ ret'.status = "NotAManager"
               /\ UNCHANGED <<storage, acl, accepted>>
      ]_vars

\* a manager's grant call for the only other identity, which was removed
\* after it had been granted the totals, was refused as NotAManager
C15_Witness ==
    /\ ret.op \in {"grantDepartmentAccess", "grantMultipleDepartmentAccess"}
    /\ ret.status = "NotAManager"
    /\ managers[ret.sender]
    /\ \A x \in Identities \ {ret.sender} :
         /\ ~managers[x]
         /\ <<totalRatingSum, x>> \in acl
         /\ ~HoldsDepartment(x, 2)
    /\ FHE_isInitialized(departmentRatingSum[2])

DepartmentGrantable(c) ==
    /\ SenderAllowed(acl, departmentRatingSum[c])
    /\ SenderAllowed(acl, departmentResponseCount[c])

\* C17: grantMultipleDepartmentAccess(target, cs) is all or nothing: it
\* succeeds exactly when grantDepartmentAccess(target, c) would succeed for
\* every c in cs, it then adds the grants on the sum and the count of every
\* c in cs, whatever their order, and when it fails it adds no grant.
C17_MultipleGrantAtomic ==
    [][ret'.op = "grantMultipleDepartmentAccess" =>
        \A t \in Identities, ids \in DepartmentIdArrays :
            grantMultipleDepartmentAccess(ret'.sender, t, ids)
            => /\ ret'.status = "ok" <=>
                    /\ managers[ret'.sender]
                    /\ managers[t]
                    /\ \A i \in 1..Len(ids) : DepartmentGrantable(ids[i])
               /\ ret'.status = "ok" =>
                    /\ acl' = acl \cup UNION {DepartmentGrants(t, ids[i]) : i \in 1..Len(ids)}
                    /\ \A i \in 1..Len(ids) : DepartmentGrants(t, ids[i]) \subseteq acl'
               /\ ret'.status # "ok" => acl' = acl
               /\ UNCHANGED <<storage, accepted>>
      ]_vars

\* a call naming a category without submissions failed, and a manager other
\* than the deployer holds no grant on the category that has one
C17_Witness ==
    /\ ret.op = "grantMultipleDepartmentAccess"
    /\ ret.status = "SenderNotAllowed"
    /\ \E c \in Departments, o \in Departments, x \in Identities \ {deployer} :
         /\ FHE_isInitialized(departmentRatingSum[c])
         /\ ~FHE_isInitialized(departmentRatingSum[o])
         /\ managers[x]
         /\ ~HoldsDepartment(x, c)

\* ------------------------------------------------------------------------
\* C18: right after deployment the deployer is a manager and the only one,
\* the log is empty, every dedup entry is false and every accumulator is an
\* uninitialized handle.
C18_InitialState ==
    ret.op = "constructor" =>
        /\ ret.sender = deployer
        /\ \A a \in Identities : managers[a] <=> a = deployer
        /\ Len(responses) = 0
        /\ \A a \in Identities, c \in Departments : ~hasSubmittedToDepartment[a][c]
        /\ ~FHE_isInitialized(totalRatingSum)
        /\ ~FHE_isInitialized(responseCount)
        /\ \A c \in Departments :
             /\ ~FHE_isInitialized(departmentRatingSum[c])
             /\ ~FHE_isInitialized(departmentResponseCount[c])
        /\ acl = {}

\* the state the constructor leaves
C18_Witness ==
    /\ ret.op = "constructor"
    /\ managers[deployer]
    /\ responses = <<>>
    /\ totalRatingSum = ZeroHandle

\* ------------------------------------------------------------------------
\* C19: a manager's addManager(t) succeeds and leaves managers[t] true, a
\* manager's removeManager(t) succeeds and leaves managers[t] false, whatever
\* the flag was before and whoever t is, the caller and the deployer
\* included; they change the flag of no other identity.
C19_RoleToggle ==
    [][ret'.op \in {"addManager", "removeManager"} =>
        \A t \in Identities :
            /\ (managers[ret'.sender] /\ addManager(ret'.sender, t))
                 => /\ ret'.status = "ok"
                    /\ managers' = [managers EXCEPT ![t] = TRUE]
            /\ (managers[ret'.sender] /\ removeManager(ret'.sender, t))
                 => /\ ret'.status = "ok"
                    /\ managers' = [managers EXCEPT ![t] = FALSE]
      ]_vars

\* the deployer removed itself while the other identity is a manager, which
\* can make it a manager again
C19_Witness ==
    /\ Succeeded("removeManager")
    /\ Target = deployer
    /\ ret.sender = deployer
    /\ ~managers[deployer]
    /\ \E x \in Identities \ {deployer} : managers[x]

\* ------------------------------------------------------------------------
\* C20: an accepted submission of i to category c sets the dedup entry of
\* the pair (i, c) and no other; a submission with the sender's own inputs
\* is accepted whenever the entry of its pair is false, whatever the
\* sender's other entries and the entries of other identities for c.
C20_DedupKeyedByPair ==
    [][ret'.op = "submitSurvey" =>
        /\ Succeeds("submitSurvey") =>
             hasSubmittedToDepartment' =
                 [hasSubmittedToDepartment
                    EXCEPT ![accepted'[Len(accepted')].employee]
                            [accepted'[Len(accepted')].department] = TRUE]
        /\ \A c \in Departments, r \in ExternalRatings, e \in ExternalDepartments :
             (/\ ~hasSubmittedToDepartment[ret'.sender][c]
              /\ r[2] = ret'.sender
              /\ e[2] = ret'.sender
              /\ \E f \in Feedbacks, now \in 1..MaxTime :
                    submitSurvey(ret'.sender, r, e, c, f, now))
             => /\ ret'.status = "ok"
                /\ accepted'[Len(accepted')].employee = ret'.sender
                /\ accepted'[Len(accepted')].department = c
      ]_vars

\* an identity that had submitted to one category was accepted for the other
C20_Witness ==
    /\ Succeeded("submitSurvey")
    /\ Len(accepted) = 2
    /\ accepted[1].employee = accepted[2].employee
    /\ accepted[1].department # accepted[2].department
    /\ \A c \in Departments : hasSubmittedToDepartment[ret.sender][c]

\* ------------------------------------------------------------------------
\* the handles that the accumulators hold
AccumulatorHandles ==
    {totalRatingSum, responseCount}
        \cup {departmentRatingSum[c] : c \in Departments}
        \cup {departmentResponseCount[c] : c \in Departments}

\* the rating and department handles of the records of the log
RecordHandles ==
    UNION {{responses[n].satisfactionRating, responses[n].departmentId} :
              n \in 1..Len(responses)}

\* C21: no account is granted the rating handle or the encrypted department
\* handle of a record of the log; every grant that a call adds is on a handle
\* that an accumulator holds after the call.
C21_NoGrantOnRecords ==
    /\ [](\A p \in acl : p[1] \notin RecordHandles)
    /\ [][\A p \in acl' \ acl : p[1] \in AccumulatorHandles']_vars

\* two records are in the log and an identity other than the deployer holds
\* grants on the global sum and on a category
C21_Witness ==
    /\ Len(responses) = 2
    /\ \E x \in Identities \ {deployer} :
         /\ <<totalRatingSum, x>> \in acl
         /\ \E c \in Departments : DepartmentGrants(x, c) \subseteq acl
    /\ \A p \in acl : p[1] \notin RecordHandles

\* ------------------------------------------------------------------------
\* h is the sum 0 + r of the rating r of one submission
SumOfOne(h) ==
    /\ h[1] = "add"
    /\ h[2] = FHE_asEuint32(0)
    /\ h[3][1] = "ext"

\* g is h plus the rating of one submission
OneMore(h, g) ==
    /\ g[1] = "add"
    /\ g[2] = h
    /\ g[3][1] = "ext"

\* C22: what an identity is granted never reveals the rating of one
\* submission: no identity holds a grant on a sum over exactly one
\* submission, and none holds grants on two sums that differ by the rating of
\* one submission.
C22_NoSingleRatingRevealed ==
    \A p \in acl :
        p[2] # This =>
            /\ ~SumOfOne(p[1])
            /\ \A q \in acl : q[2] = p[2] => ~OneMore(p[1], q[1])

\* ------------------------------------------------------------------------
\* C23: only the deployer causes a change of the manager set, and no other
\* identity clears the manager flag of the deployer.
C23_OwnerControlsManagers ==
    [][ /\ managers' # managers => ret'.sender = deployer
        /\ (managers[deployer] /\ ~managers'[deployer]) => ret'.sender = deployer
      ]_vars

\* ------------------------------------------------------------------------
\* the accepted submissions of identity i to category c
AcceptedOf(i, c) ==
    {n \in 1..Len(accepted) : accepted[n].employee = i /\ accepted[n].department = c}

C26_RatingsInRange ==
    /\ \A n \in 1..Len(accepted) :
         accepted[n].rating[1] = 0 /\ accepted[n].rating[2] \in 1..5
    /\ TotalOfRatings[1] = 0
    /\ Decrypt(totalRatingSum)[1] = 0
    /\ Decrypt(totalRatingSum)[2] >= Len(accepted)
    /\ Decrypt(totalRatingSum)[2] <= 5 * Len(accepted)

\* ------------------------------------------------------------------------
\* C27: the global sum and count are uninitialized exactly while the log is
\* empty, the sum and count of category c are uninitialized exactly while no
\* submission to c has been accepted, getDepartmentStats returns those
\* handles, and an initialized accumulator never becomes uninitialized.
C27_LazyAccumulators ==
    /\ [](/\ FHE_isInitialized(totalRatingSum) <=> Len(responses) > 0
          /\ FHE_isInitialized(responseCount) <=> Len(responses) > 0
          /\ \A c \in Departments :
               /\ FHE_isInitialized(departmentRatingSum[c]) <=> InDepartment(c) # {}
               /\ FHE_isInitialized(departmentResponseCount[c]) <=> InDepartment(c) # {}
          /\ Succeeded("getDepartmentStats") =>
               \E c \in Departments :
                   ret.value = <<departmentRatingSum[c], departmentResponseCount[c]>>)
    /\ [][/\ FHE_isInitialized(totalRatingSum) => FHE_isInitialized(totalRatingSum')
          /\ FHE_isInitialized(responseCount) => FHE_isInitialized(responseCount')
          /\ \A c \in Departments :
               /\ FHE_isInitialized(departmentRatingSum[c])
                     => FHE_isInitialized(departmentRatingSum'[c])
               /\ FHE_isInitialized(departmentResponseCount[c])
                     => FHE_isInitialized(departmentResponseCount'[c])]_vars

\* a manager read the statistics of a category without submissions, while
\* the other category has one, and got two uninitialized handles
C27_Witness ==
    /\ Succeeded("getDepartmentStats")
    /\ ret.value = <<ZeroHandle, ZeroHandle>>
    /\ Len(responses) > 0
    /\ \E c \in Departments : FHE_isInitialized(departmentRatingSum[c])
    /\ \E c \in Departments : ~FHE_isInitialized(departmentResponseCount[c])

\* ------------------------------------------------------------------------
\* C28: the only accounts, other than the contract, that an accepted
\* submission grants are identities whose manager flag is true at the
\* submission.
C28_SubmitGrantsManagersOnly ==
    [][Succeeds("submitSurvey") =>
        \A p \in acl' \ acl : p[2] = This \/ managers[p[2]]]_vars

HoldsGlobalGrants(t) == AddManagerGrants(t) \subseteq acl

GrantedAfter(h) == {a \in Identities \cup {This} : <<h, a>> \in acl'}

C31_RecordCarriesItsDepartment ==
    /\ Len(accepted) = Len(responses)
    /\ \A n \in 1..Len(responses) :
         Decrypt(responses[n].departmentId) = U32(accepted[n].department)

\* ------------------------------------------------------------------------
\* the sum over the categories, in the naturals, of what f[c] decrypts to
RECURSIVE SumOverDepartments(_, _)
SumOverDepartments(f, cs) ==
    IF cs = {} THEN U32(0)
    ELSE LET c == CHOOSE x \in cs : TRUE
         IN  AddNat(SumOverDepartments(f, cs \ {c}), Decrypt(f[c]))

NoManager == \A a \in Identities : ~managers[a]

\* C33: in every reachable state some identity has the manager flag.
C33_SomeManager == ~NoManager

\* ------------------------------------------------------------------------
\* C34: once no identity has the manager flag none ever has it again: every
\* addManager, removeManager, grant call and manager-gated read then fails
\* with Unauthorized, and a grant is added only by an accepted submission,
\* to the contract or to the deployer.
C34_LockoutIsPermanent ==
    [][NoManager =>
        /\ NoManager'
        /\ ret'.op \in AdminOps \cup ManagerReads => ret'.status = "Unauthorized"
        /\ acl' # acl =>
             /\ Succeeds("submitSurvey")
             /\ \A p \in acl' \ acl : p[2] \in {This, deployer}
      ]_vars

\* no manager is left, a submission was accepted since and granted the
\* deployer, and the other identity, a manager once, holds an older grant
C34_Witness ==
    /\ NoManager
    /\ Succeeded("submitSurvey")
    /\ Len(responses) = 2
    /\ <<totalRatingSum, deployer>> \in acl
    /\ \E x \in Identities \ {deployer} : <<totalRatingSum[2], x>> \in acl

\* ------------------------------------------------------------------------
\* C36: the manager flags change only in a successful addManager or
\* removeManager; submitSurvey, the grant calls and the reads leave them as
\* they are, and addManager, removeManager and the grant calls leave the log,
\* the dedup table and the accumulators as they are.
C36_RolesAndDataAreSeparate ==
    [][ /\ managers' # managers =>
              Succeeds("addManager") \/ Succeeds("removeManager")
        /\ ret'.op \notin {"addManager", "removeManager"} => managers' = managers
        /\ ret'.op \in AdminOps =>
              /\ UNCHANGED <<responses, hasSubmittedToDepartment, totalRatingSum,
                             responseCount, departmentRatingSum,
                             departmentResponseCount, accepted>>
              /\ Decrypt(totalRatingSum)' = Decrypt(totalRatingSum)
              /\ Decrypt(responseCount)' = Decrypt(responseCount)
      ]_vars

\* a successful grant call in a state with two records and an identity that
\* is not a manager
C36_Witness ==
    /\ Succeeded("grantDepartmentAccess")
    /\ Len(responses) = 2
    /\ \E x \in Identities : ~managers[x]
    /\ \E x \in Identities \ {deployer} : managers[x]

\* ------------------------------------------------------------------------
Reads == ManagerReads \cup {"getResponseArrayLength"}

\* what read `op` returns in the current state
ReadValues(op) ==
    CASE op = "getAverageRating" -> {totalRatingSum}
      [] op = "getTotalRatingSum" -> {totalRatingSum}
      [] op = "getResponseCount" -> {responseCount}
      [] op = "getResponseArrayLength" -> {Len(responses)}
      [] op = "getDepartmentStats" ->
            {<<departmentRatingSum[c], departmentResponseCount[c]>> : c \in Departments}

\* C37: a read, whether it succeeds or fails, changes no state, and what it
\* returns is what the same read returns as long as no write happens: the
\* current handles or the current length.
C37_ReadsArePure ==
    /\ [][ret'.op \in Reads =>
            /\ UNCHANGED <<storage, acl, accepted>>
            /\ ret'.events = <<>>
            /\ ret'.status = "ok" => ret'.value \in ReadValues(ret'.op)]_vars
    /\ [](ret.op \in Reads /\ ret.status = "ok" => ret.value \in ReadValues(ret.op))

\* a manager other than the deployer read the count of a log of two
C37_Witness ==
    /\ Succeeded("getResponseCount")
    /\ ret.sender # deployer
    /\ Len(responses) = 2
    /\ ret.value = responseCount
    /\ <<responseCount, ret.sender>> \notin acl

\* ------------------------------------------------------------------------
\* submitSurvey as a function of the state it starts from, so that the two
\* orders of a pair of submissions can be compared from one state
\* ------------------------------------------------------------------------
\* what submitSurvey reads and writes
SurveyState ==
    [has |-> hasSubmittedToDepartment, log |-> responses,
     sum |-> totalRatingSum, count |-> responseCount,
     dsum |-> departmentRatingSum, dcount |-> departmentResponseCount,
     list |-> acl]

\* the arguments of a call of submitSurvey
Submission(sender, encryptedRating, encryptedDepartment, d, encryptedFeedback, now) ==
    [sender |-> sender, rating |-> encryptedRating, department |-> encryptedDepartment,
     d |-> d, feedback |-> encryptedFeedback, now |-> now]

\* the submissions of identity i with inputs created by identity o
SubmissionsOf(i, o) ==
    {Submission(i, External(o, v), External(o, U32(e)), d, f, now) :
        v \in RatingValues, e \in Departments,
        d \in Departments, f \in Feedbacks, now \in Timestamps}

Submissions == UNION {SubmissionsOf(i, o) : i \in Identities, o \in Identities}

\* the call passes the duplicate check and the proof checks in state s
Acceptable(s, x) ==
    /\ ~s.has[x.sender][x.d]
    /\ ProofVerifies(x.rating, x.sender)
    /\ ProofVerifies(x.department, x.sender)

\* mutant: the sum of the department is overwritten with the rating
SubmitEffect_Overwrites(s, x) ==
    LET rating == FHE_fromExternal(x.rating)
        department == FHE_fromExternal(x.department)
        one == FHE_asEuint32(1)
        sum == FHE_add(s.sum, rating)
        count == FHE_add(s.count, one)
        dsum == rating
        dcount == FHE_add(s.dcount[x.d], one)
    IN  [has |-> [s.has EXCEPT ![x.sender][x.d] = TRUE],
         log |-> Append(s.log,
                    SurveyResponse(rating, department, x.feedback, x.now, x.sender)),
         sum |-> sum,
         count |-> count,
         dsum |-> [s.dsum EXCEPT ![x.d] = dsum],
         dcount |-> [s.dcount EXCEPT ![x.d] = dcount],
         list |-> Allow(s.list, {sum, count, dsum, dcount} \X {This, deployer})]

\* the state an accepted submitSurvey(x) leaves, starting from s
SubmitEffect(s, x) ==
    LET rating == FHE_fromExternal(x.rating)
        department == FHE_fromExternal(x.department)
        one == FHE_asEuint32(1)
        sum == FHE_add(s.sum, rating)
        count == FHE_add(s.count, one)
        dsum == FHE_add(s.dsum[x.d], rating)
        dcount == FHE_add(s.dcount[x.d], one)
    IN  [has |-> [s.has EXCEPT ![x.sender][x.d] = TRUE],
         log |-> Append(s.log,
                    SurveyResponse(rating, department, x.feedback, x.now, x.sender)),
         sum |-> sum,
         count |-> count,
         dsum |-> [s.dsum EXCEPT ![x.d] = dsum],
         dcount |-> [s.dcount EXCEPT ![x.d] = dcount],
         list |-> Allow(s.list, {sum, count, dsum, dcount} \X {This, deployer})]

\* an accepted call of submitSurvey changes the state as SubmitEffect says
SubmitEffectIsSubmitSurvey ==
    [][Succeeds("submitSurvey") =>
          \A i \in Identities : ret'.sender = i =>
              \E x \in SubmissionsOf(i, i) :
                  /\ Acceptable(SurveyState, x)
                  /\ x.d = accepted'[Len(accepted')].department
                  /\ SurveyState' = SubmitEffect(SurveyState, x)
      ]_vars

\* the accounts that hold a grant on handle h in state s
GrantedIn(s, h) == {p[2] : p \in {q \in s.list : q[1] = h}}

\* the two states agree on the dedup table, the length of the log, the
\* records of the log and the plaintexts of the accumulators
SameData(s, t) ==
    /\ s.has = t.has
    /\ Len(s.log) = Len(t.log)
    /\ {s.log[n] : n \in 1..Len(s.log)} = {t.log[n] : n \in 1..Len(t.log)}
    /\ Decrypt(s.sum) = Decrypt(t.sum)
    /\ Decrypt(s.count) = Decrypt(t.count)
    /\ \A c \in Departments :
          /\ Decrypt(s.dsum[c]) = Decrypt(t.dsum[c])
          /\ Decrypt(s.dcount[c]) = Decrypt(t.dcount[c])

\* each accumulator is held by the same accounts in the two states
SameGrantees(s, t) ==
    /\ GrantedIn(s, s.sum) = GrantedIn(t, t.sum)
    /\ GrantedIn(s, s.count) = GrantedIn(t, t.count)
    /\ \A c \in Departments :
          /\ GrantedIn(s, s.dsum[c]) = GrantedIn(t, t.dsum[c])
          /\ GrantedIn(s, s.dcount[c]) = GrantedIn(t, t.dcount[c])

\* the grants that s lacks and t has go to the contract and the deployer, and
\* the global accumulators of t and those of categories cs are held by both
SameGrantsIssued(s, t, cs) ==
    /\ {p[2] : p \in t.list \ s.list} \subseteq {This, deployer}
    /\ {This, deployer} \subseteq GrantedIn(t, t.sum) \cap GrantedIn(t, t.count)
    /\ \A c \in cs :
          {This, deployer} \subseteq GrantedIn(t, t.dsum[c]) \cap GrantedIn(t, t.dcount[c])
    /\ \A c \in Departments \ cs :
          /\ t.dsum[c] = s.dsum[c] /\ t.dcount[c] = s.dcount[c]
          /\ GrantedIn(t, t.dsum[c]) = GrantedIn(s, s.dsum[c])
          /\ GrantedIn(t, t.dcount[c]) = GrantedIn(s, s.dcount[c])

\* pairs of submissions with distinct (identity, category) that the current
\* state accepts
AcceptableNow == {x \in Submissions : Acceptable(SurveyState, x)}

CommutingPairs ==
    {p \in AcceptableNow \X AcceptableNow :
        <<p[1].sender, p[1].d>> # <<p[2].sender, p[2].d>>}

CommuteUpToHandles ==
    \A p \in CommutingPairs :
        LET ab == SubmitEffect(SubmitEffect(SurveyState, p[1]), p[2])
            ba == SubmitEffect(SubmitEffect(SurveyState, p[2]), p[1])
        IN  /\ Acceptable(SubmitEffect(SurveyState, p[1]), p[2])
            /\ Acceptable(SubmitEffect(SurveyState, p[2]), p[1])
            /\ SameData(ab, ba)
            /\ ab.log = SurveyState.log \o <<ab.log[Len(ab.log) - 1], ab.log[Len(ab.log)]>>
            /\ ba.log = SurveyState.log \o <<ab.log[Len(ab.log)], ab.log[Len(ab.log) - 1]>>
            /\ SameGrantsIssued(SurveyState, ab, {p[1].d, p[2].d})
            /\ SameGrantsIssued(SurveyState, ba, {p[1].d, p[2].d})

StoresClearValue ==
    \/ clearResponseCount' # clearResponseCount
    \/ clearRatingSum' # clearRatingSum
    \/ clearDepartmentStats' # clearDepartmentStats

\* C38: a decryptStats run whose signer, chain or contract address changed
\* while it awaited stores nothing: whenever a decrypted count, sum or set of
\* department statistics is stored, the signer it was decrypted for is the
\* current signer and the run's chain and address are the current ones.
C38_StaleRunStoresNothing ==
    [][StoresClearValue =>
          /\ decryptRun.thisEthersSigner = ethersSigner
          /\ decryptRun.thisChainId = chainId
          /\ decryptRun.thisSurveyAddress = surveyRef.address]_vars

\* the part of C38 that the checks of isStale() establish: the two totals are
\* stored only for the current signer
GlobalValuesForCurrentSigner ==
    [][clearResponseCount' # clearResponseCount \/ clearRatingSum' # clearRatingSum =>
          /\ decryptRun.thisEthersSigner = ethersSigner
          /\ decryptRun.thisChainId = chainId
          /\ decryptRun.thisSurveyAddress = surveyRef.address]_vars

\* the two totals were stored for the deployer, still the signer
GlobalValuesStored ==
    /\ clearResponseCount.handle # NoHandle
    /\ clearRatingSum.handle # NoHandle
    /\ clearRatingSum.signer = ethersSigner

\* department statistics decrypted for the deployer are in the clear state
\* although the run ended under another signer
DepartmentStatsOfPreviousSigner ==
    /\ DOMAIN clearDepartmentStats.stats # {}
    /\ clearDepartmentStats.signer = Deployer
    /\ ethersSigner = "alice"
    /\ decryptRun.pc = "idle"
    /\ clearRatingSum.signer = Deployer

====
